---- MODULE Spec2Model ----
(***************************************************************************)
(* A model of the family-tree editor of src/src/FamilyTreeApp.jsx (the     *)
(* first component of the file, lines 1-567): the record store             *)
(* (supabase table family_members), the component's React state, and the   *)
(* asynchronous save() handler, one action per store request it awaits.    *)
(*                                                                         *)
(* Person ids are the positive integers the store hands out; Null stands   *)
(* for JavaScript null / undefined / "" (the code normalises the three     *)
(* with `|| null` and `|| ""`).  A parents list is a sequence, as the      *)
(* array in the code.  The image URL of a person is modelled by the id     *)
(* the blob path person-<id>.<ext> is derived from.                        *)
(*                                                                         *)
(* A supabase request never rejects: it resolves to {data, error}.  So a   *)
(* failed request changes nothing in the store and hands the caller an     *)
(* error object, which the caller may or may not look at.                  *)
(***************************************************************************)
EXTENDS Integers, Sequences, FiniteSets, TLC

VARIABLES
    store,              \* the table family_members: id -> record
    people,             \* useState people: the loaded population
    loading,            \* useState loading
    modalOpen,          \* useState modalOpen
    currentEdit,        \* useState currentEdit (Null in the add-flow)
    form,               \* useState form
    imageFile,          \* useState imageFile (TRUE: a file was chosen)
    selectedChildren,   \* useState selectedChildren
    saves,              \* the save() calls: slot -> activation record
    lastSave,           \* what the latest finished save() was called with
    chart,              \* the diagram description last handed to the renderer
    boot,               \* TRUE until the fetch of the mount effect returned
    nSessions,          \* openAdd / openEdit calls so far
    nEdits,             \* form edits so far
    nFails              \* failed store requests so far

vars == <<store, people, loading, modalOpen, currentEdit, form, imageFile,
          selectedChildren, saves, lastSave, chart, boot, nSessions, nEdits, nFails>>

(* ------------------------------ bounds -------------------------------- *)
MaxSessions == 2
MaxEdits == 3
MaxFails == 1

(* ---------------------------- constants ------------------------------- *)
Null == 0

Slots == {1, 2}

Includes(seq, x) == \E i \in 1..Len(seq) : seq[i] = x

Filter(seq, x) == SelectSeq(seq, LAMBDA y : y # x)

(* ------------------------- the record store --------------------------- *)
\* mutant: an update that stores the patch as the whole row
PatchWhole(rec, patch) ==
    [f \in DOMAIN rec |-> IF f \in DOMAIN patch THEN patch[f]
                          ELSE IF f = "parents" THEN <<>> ELSE Null]

\* update(patch): only the columns of the patch are written
Patch(rec, patch) == [f \in DOMAIN rec |-> IF f \in DOMAIN patch THEN patch[f] ELSE rec[f]]

\* .update(patch).eq("id", id): no row matches an unknown id
Update(st, id, patch) == IF id \in DOMAIN st THEN [st EXCEPT ![id] = Patch(@, patch)] ELSE st

\* a request that fails leaves the table as it was
Write(st, ok, id, patch) == IF ok THEN Update(st, id, patch) ELSE st

\* the id the store assigns to an inserted row
NewId(st) == Cardinality(DOMAIN st) + 1

\* .insert([personData]).select()
Insert(st, data) == st @@ (NewId(st) :> [parents |-> data.parents, spouse |-> data.spouse, img |-> Null])

\* getPublicUrl("person-<id>.<ext>")
PublicUrl(personId) == personId

\* the outcomes a store request can have while failures are within the bound
Outcomes == IF nFails < MaxFails THEN {TRUE, FALSE} ELSE {TRUE}

Failed(ok) == IF ok THEN nFails ELSE nFails + 1

InitStore == (1 :> [parents |-> <<>>, spouse |-> 2, img |-> Null])
          @@ (2 :> [parents |-> <<>>, spouse |-> 1, img |-> Null])
          @@ (3 :> [parents |-> <<1, 2>>, spouse |-> Null, img |-> Null])

EmptyForm == [parents |-> <<>>, spouse |-> Null, img |-> Null]

IdleSave == [pc |-> "idle", people |-> <<>>, currentEdit |-> Null, form |-> EmptyForm,
             imageFile |-> FALSE, selectedChildren |-> {}, savedId |-> Null,
             cursor |-> Null, log |-> <<>>, alerted |-> FALSE, closedModal |-> FALSE,
             fetched |-> FALSE, fresh |-> FALSE, repeat |-> "no"]

NoSave == [id |-> Null, children |-> {}, clean |-> FALSE]

\* the tree container before any renderTree(): no statement
EmptyChart == <<>>

Init ==
    /\ store = InitStore
    /\ people = <<>>
    /\ loading = TRUE
    /\ modalOpen = FALSE
    /\ currentEdit = Null
    /\ form = EmptyForm
    /\ imageFile = FALSE
    /\ selectedChildren = {}
    /\ saves = [i \in Slots |-> IdleSave]
    /\ lastSave = NoSave
    /\ chart = EmptyChart
    /\ boot = TRUE
    /\ nSessions = 0
    /\ nEdits = 0
    /\ nFails = 0

\* A save() is between two of its awaits.  Spec describes one editor who waits
\* for a pending request before the next click (the buttons themselves are never
\* disabled): every user action is guarded by UserIdle.
InFlight(i) == saves[i].pc \notin {"idle", "done"}

UserIdle == ~boot /\ \A i \in Slots : ~InFlight(i)

\* the activation record of a save() that returned is dropped when the user goes on
Retired == [i \in Slots |-> IF saves[i].pc = "done" THEN IdleSave ELSE saves[i]]

(* ----------------------------- fetchPeople ---------------------------- *)
\* a fetchPeople that stores its (empty) result whatever the outcome
FetchedClears(ok) == IF ok THEN store ELSE <<>>

\* if (!error) setPeople(obj): a failed select leaves people as it was
Fetched(ok) == IF ok THEN store ELSE people

\* the fetchPeople() of the mount effect
fetchPeople ==
    /\ UNCHANGED chart
    /\ boot
    /\ \E ok \in Outcomes :
        /\ people' = Fetched(ok)
        /\ nFails' = Failed(ok)
    /\ loading' = FALSE
    /\ boot' = FALSE
    /\ UNCHANGED <<store, modalOpen, currentEdit, form, imageFile, selectedChildren,
                   saves, lastSave, nSessions, nEdits>>

(* --------------------------- the edit session ------------------------- *)
\* mutant: an openAdd that leaves the children selection and the pending image
openAddKeepsSelection ==
    /\ UNCHANGED chart
    /\ UserIdle
    /\ ~modalOpen
    /\ nSessions < MaxSessions
    /\ currentEdit' = Null
    /\ form' = EmptyForm
    /\ modalOpen' = TRUE
    /\ nSessions' = nSessions + 1
    /\ saves' = Retired
    /\ UNCHANGED <<store, people, loading, lastSave, boot, nEdits, nFails,
                   selectedChildren, imageFile>>

openAdd ==
    /\ UNCHANGED chart
    /\ UserIdle
    /\ ~modalOpen
    /\ nSessions < MaxSessions
    /\ currentEdit' = Null
    /\ form' = EmptyForm
    /\ selectedChildren' = {}
    /\ imageFile' = FALSE
    /\ modalOpen' = TRUE
    /\ nSessions' = nSessions + 1
    /\ saves' = Retired
    /\ UNCHANGED <<store, people, loading, lastSave, boot, nEdits, nFails>>

\* the ids of the persons that list id as a parent
ChildrenOf(pop, id) == {c \in DOMAIN pop : Includes(pop[c].parents, id)}

openEdit(id) ==
    /\ UNCHANGED chart
    /\ UserIdle
    /\ ~modalOpen
    /\ nSessions < MaxSessions
    /\ id \in DOMAIN people
    /\ currentEdit' = id
    /\ form' = people[id]
    /\ selectedChildren' = ChildrenOf(people, id)
    /\ imageFile' = FALSE
    /\ modalOpen' = TRUE
    /\ nSessions' = nSessions + 1
    /\ saves' = Retired
    /\ UNCHANGED <<store, people, loading, lastSave, boot, nEdits, nFails>>

\* mutant: the lists offer the edited person too
OthersAll == DOMAIN people

\* the persons offered by the parents list, the children list and the spouse select
Others == DOMAIN people \ {currentEdit}

Editing == UserIdle /\ modalOpen /\ nEdits < MaxEdits

\* mutant: the id is appended whether or not the list holds it
ToggledParentsAppend(current, pid) == Append(current, pid)

ToggledParents(current, pid) == IF Includes(current, pid) THEN Filter(current, pid) ELSE Append(current, pid)

toggleParent(pid) ==
    /\ UNCHANGED chart
    /\ Editing
    /\ pid \in Others
    /\ form' = [form EXCEPT !.parents = ToggledParents(form.parents, pid)]
    /\ nEdits' = nEdits + 1
    /\ UNCHANGED <<store, people, loading, modalOpen, currentEdit, imageFile,
                   selectedChildren, lastSave, boot, nSessions, nFails>>
    /\ saves' = Retired

ToggledChildren(prev, cid) == IF cid \in prev THEN prev \ {cid} ELSE prev \cup {cid}

toggleChild(cid) ==
    /\ UNCHANGED chart
    /\ Editing
    /\ cid \in Others
    /\ selectedChildren' = ToggledChildren(selectedChildren, cid)
    /\ nEdits' = nEdits + 1
    /\ UNCHANGED <<store, people, loading, modalOpen, currentEdit, form, imageFile,
                   lastSave, boot, nSessions, nFails>>
    /\ saves' = Retired

\* onChange of the spouse select
setSpouse(v) ==
    /\ UNCHANGED chart
    /\ Editing
    /\ v \in Others \cup {Null}
    /\ v # form.spouse
    /\ form' = [form EXCEPT !.spouse = v]
    /\ nEdits' = nEdits + 1
    /\ UNCHANGED <<store, people, loading, modalOpen, currentEdit, imageFile,
                   selectedChildren, lastSave, boot, nSessions, nFails>>
    /\ saves' = Retired

\* onChange of the file input
setImageFile ==
    /\ UNCHANGED chart
    /\ Editing
    /\ ~imageFile
    /\ imageFile' = TRUE
    /\ nEdits' = nEdits + 1
    /\ UNCHANGED <<store, people, loading, modalOpen, currentEdit, form,
                   selectedChildren, lastSave, boot, nSessions, nFails>>
    /\ saves' = Retired

\* the Cancel button
cancel ==
    /\ UNCHANGED chart
    /\ UserIdle
    /\ modalOpen
    /\ modalOpen' = FALSE
    /\ UNCHANGED <<store, people, loading, currentEdit, form, imageFile,
                   selectedChildren, lastSave, boot, nSessions, nEdits, nFails>>
    /\ saves' = Retired

(* -------------------------------- save --------------------------------- *)
\* 1. PREPARE DATA: the columns the main write carries
\* mutant: personData carries an empty image URL too
PersonDataWithImg(f) == [parents |-> f.parents, spouse |-> f.spouse, img |-> Null]

PersonData(f) == [parents |-> f.parents, spouse |-> f.spouse]

\* 2. the spouse of the edited person as last loaded (null in the add-flow)
OldSpouseId(s) == IF s.currentEdit \in DOMAIN s.people THEN s.people[s.currentEdit].spouse ELSE Null

NewSpouseId(s) == s.form.spouse

\* mutant: the divorce goes to the partner the new spouse had
DivorceTargetOfNewSpouse(s) == IF NewSpouseId(s) \in DOMAIN s.people /\ s.people[NewSpouseId(s)].spouse # Null
                               THEN s.people[NewSpouseId(s)].spouse ELSE OldSpouseId(s)

\* 5.A the record the divorce write goes to: .eq("id", oldSpouseId)
DivorceTarget(s) == OldSpouseId(s)

\* 6. the loop over the other persons of the loaded population
AllPeople(s) == DOMAIN s.people \ {s.savedId}

IsSelected(s, c) == c \in s.selectedChildren

HasParent(s, c) == Includes(s.people[c].parents, s.savedId)

\* mutant: the marry write carries the id save() was called with
MarryPatchCurrentEdit(s) == [spouse |-> s.currentEdit]

\* 5.B the columns the marry write carries: update({ spouse: savedId })
MarryPatch(s) == [spouse |-> s.savedId]

\* mutant: a write to every selected person, whether or not it lists X already
ChildDiffersSelected(s, c) == IsSelected(s, c)

\* mutant: a write to every person that is selected or lists X
ChildDiffersEither(s, c) == IsSelected(s, c) \/ HasParent(s, c)

\* the two branches of the loop body that issue a write
ChildDiffers(s, c) == (IsSelected(s, c) /\ ~HasParent(s, c)) \/ (~IsSelected(s, c) /\ HasParent(s, c))

\* mutant: the removing branch appends too
ChildParentsAppend(s, c) == Append(s.people[c].parents, s.savedId)

\* the parents list the write carries
ChildParents(s, c) == IF IsSelected(s, c) THEN Append(s.people[c].parents, s.savedId) ELSE Filter(s.people[c].parents, s.savedId)

\* the persons the loop has still to write to, in the order of Object.values
ChildTodo(s) == {c \in AllPeople(s) : c > s.cursor /\ ChildDiffers(s, c)}

NextChild(s) == CHOOSE c \in ChildTodo(s) : \A d \in ChildTodo(s) : c <= d

\* where save() continues after each of its awaits
AfterSpouse(s) == IF ChildTodo(s) # {} THEN "child" ELSE "fetch"

\* mutant: the marry step is left out
AfterDivorceNoMarry(s) == AfterSpouse(s)

\* mutant: the marry step does not depend on the spouse having changed
AfterDivorceAlwaysMarry(s) == IF NewSpouseId(s) # Null THEN "marry" ELSE AfterSpouse(s)

AfterDivorce(s) == IF OldSpouseId(s) # NewSpouseId(s) /\ NewSpouseId(s) # Null THEN "marry" ELSE AfterSpouse(s)

\* mutant: the divorce step is left out
AfterPhotoNoDivorce(s) == AfterDivorce(s)

\* mutant: the divorce step does not depend on the spouse having changed
AfterPhotoDivorceUnchanged(s) == IF OldSpouseId(s) # Null THEN "divorce" ELSE AfterDivorce(s)

AfterPhoto(s) == IF OldSpouseId(s) # NewSpouseId(s) /\ OldSpouseId(s) # Null THEN "divorce" ELSE AfterDivorce(s)

\* mutant: the photo step is left out
AfterMainNoPhoto(s) == AfterPhoto(s)

AfterMain(s) == IF s.imageFile /\ s.savedId # Null THEN "upload" ELSE AfterPhoto(s)

Logged(s, kind, id, ok) == [s EXCEPT !.log = Append(@, [kind |-> kind, id |-> id, ok |-> ok])]

\* every request of the save succeeded
Clean(s) == \A k \in 1..Len(s.log) : s.log[k].ok

\* the slot a new call of save() takes
FreeSlot == CHOOSE i \in Slots : ~InFlight(i) /\ \A j \in Slots : ~InFlight(j) => i <= j

\* save() goes on to its next await; setModalOpen(false) runs once the loop is over
Proceed(i, s, nxt) ==
    /\ saves' = [saves EXCEPT ![i] = [s EXCEPT !.pc = nxt, !.closedModal = (nxt = "fetch")]]
    /\ modalOpen' = IF nxt = "fetch" THEN FALSE ELSE modalOpen
    /\ loading' = loading
    /\ lastSave' = lastSave

\* mutant: a catch with no finally
ThrowKeepsLoading(i, s) ==
    /\ saves' = [saves EXCEPT ![i] = [s EXCEPT !.pc = "done", !.alerted = TRUE]]
    /\ modalOpen' = modalOpen
    /\ loading' = loading
    /\ lastSave' = NoSave

\* throw: catch { alert(...) } finally { setLoading(false) }
Throw(i, s) ==
    /\ saves' = [saves EXCEPT ![i] = [s EXCEPT !.pc = "done", !.alerted = TRUE]]
    /\ modalOpen' = modalOpen
    /\ loading' = FALSE
    /\ lastSave' = NoSave

\* this call repeats the latest finished save(): same person, same selected children
Repeats == IF currentEdit # Null /\ lastSave.id = currentEdit /\ lastSave.children = selectedChildren
           THEN (IF lastSave.clean THEN "clean" ELSE "any")
           ELSE "no"

\* mutant: a Save button that is disabled while a save() is running
SaveButtonOffWhileLoading == modalOpen /\ ~loading

\* the Save button is rendered with the modal and carries no disabled attribute
SaveButton == modalOpen

\* save() up to its first await, as activation j
StartSave(j) ==
    /\ saves' = [saves EXCEPT ![j] =
                   [pc |-> "main", people |-> people, currentEdit |-> currentEdit,
                    form |-> form, imageFile |-> imageFile,
                    selectedChildren |-> selectedChildren, savedId |-> currentEdit,
                    cursor |-> Null, log |-> <<>>, alerted |-> FALSE,
                    closedModal |-> FALSE, fetched |-> FALSE,
                    fresh |-> (people = store), repeat |-> Repeats]]
    /\ loading' = TRUE
    /\ UNCHANGED <<store, people, modalOpen, currentEdit, form, imageFile,
                   selectedChildren, lastSave, chart, boot, nSessions, nEdits, nFails>>

\* a click on Save while no save() is running
save ==
    /\ UserIdle
    /\ SaveButton
    /\ StartSave(FreeSlot)

\* some save() is between two awaits and an activation record is free
Overlappable == (\E i \in Slots : InFlight(i)) /\ (\E j \in Slots : ~InFlight(j))

\* a click on Save while an earlier save() is still between two of its awaits
saveAgain ==
    /\ ~boot
    /\ Overlappable
    /\ SaveButton
    /\ StartSave(FreeSlot)

\* 3. UPSERT THE MAIN PERSON
saveMain(i) ==
    /\ UNCHANGED chart
    /\ saves[i].pc = "main"
    /\ \E ok \in Outcomes :
        LET s == saves[i] IN
        /\ nFails' = Failed(ok)
        /\ \/ /\ s.currentEdit # Null
              /\ store' = Write(store, ok, s.currentEdit, PersonData(s.form))
              /\ LET s1 == Logged(s, "main", s.currentEdit, ok) IN Proceed(i, s1, AfterMain(s1))
           \/ /\ s.currentEdit = Null
              /\ ok
              /\ store' = Insert(store, PersonData(s.form))
              /\ LET s1 == [Logged(s, "main", NewId(store), ok) EXCEPT !.savedId = NewId(store)]
                 IN Proceed(i, s1, AfterMain(s1))
           \/ /\ s.currentEdit = Null
              /\ ~ok
              /\ store' = store
              /\ Throw(i, Logged(s, "main", Null, ok))
    /\ UNCHANGED <<people, currentEdit, form, imageFile, selectedChildren, boot,
                   nSessions, nEdits>>

\* 4. HANDLE PHOTO: uploadImage throws on a failed upload
saveUpload(i) ==
    /\ UNCHANGED chart
    /\ saves[i].pc = "upload"
    /\ \E ok \in Outcomes :
        LET s1 == Logged(saves[i], "upload", saves[i].savedId, ok) IN
        /\ nFails' = Failed(ok)
        /\ \/ /\ ok
              /\ Proceed(i, s1, "photoUrl")
           \/ /\ ~ok
              /\ Throw(i, s1)
    /\ UNCHANGED <<store, people, currentEdit, form, imageFile, selectedChildren,
                   boot, nSessions, nEdits>>

savePhotoUrl(i) ==
    /\ UNCHANGED chart
    /\ saves[i].pc = "photoUrl"
    /\ \E ok \in Outcomes :
        LET s1 == Logged(saves[i], "photoUrl", saves[i].savedId, ok) IN
        /\ nFails' = Failed(ok)
        /\ store' = Write(store, ok, s1.savedId, [img |-> PublicUrl(s1.savedId)])
        /\ Proceed(i, s1, AfterPhoto(s1))
    /\ UNCHANGED <<people, currentEdit, form, imageFile, selectedChildren, boot,
                   nSessions, nEdits>>

\* 5.A "Divorce" the ex-spouse
saveDivorce(i) ==
    /\ UNCHANGED chart
    /\ saves[i].pc = "divorce"
    /\ \E ok \in Outcomes :
        LET s1 == Logged(saves[i], "divorce", DivorceTarget(saves[i]), ok) IN
        /\ nFails' = Failed(ok)
        /\ store' = Write(store, ok, DivorceTarget(s1), [spouse |-> Null])
        /\ Proceed(i, s1, AfterDivorce(s1))
    /\ UNCHANGED <<people, currentEdit, form, imageFile, selectedChildren, boot,
                   nSessions, nEdits>>

\* 5.B "Marry" the new spouse
saveMarry(i) ==
    /\ UNCHANGED chart
    /\ saves[i].pc = "marry"
    /\ \E ok \in Outcomes :
        LET s1 == Logged(saves[i], "marry", NewSpouseId(saves[i]), ok) IN
        /\ nFails' = Failed(ok)
        /\ store' = Write(store, ok, NewSpouseId(s1), MarryPatch(s1))
        /\ Proceed(i, s1, AfterSpouse(s1))
    /\ UNCHANGED <<people, currentEdit, form, imageFile, selectedChildren, boot,
                   nSessions, nEdits>>

\* 6. one write of the parent/child loop
saveChild(i) ==
    /\ UNCHANGED chart
    /\ saves[i].pc = "child"
    /\ \E ok \in Outcomes :
        LET s  == saves[i]
            c  == NextChild(s)
            s1 == [Logged(s, "child", c, ok) EXCEPT !.cursor = c]
        IN
        /\ nFails' = Failed(ok)
        /\ store' = Write(store, ok, c, [parents |-> ChildParents(s, c)])
        /\ Proceed(i, s1, AfterSpouse(s1))
    /\ UNCHANGED <<people, currentEdit, form, imageFile, selectedChildren, boot,
                   nSessions, nEdits>>

\* await fetchPeople(), then finally { setLoading(false) }
saveFetch(i) ==
    /\ UNCHANGED chart
    /\ saves[i].pc = "fetch"
    /\ \E ok \in Outcomes :
        /\ nFails' = Failed(ok)
        /\ people' = Fetched(ok)
        /\ saves' = [saves EXCEPT ![i] = [@ EXCEPT !.pc = "done", !.fetched = ok]]
        /\ lastSave' = IF ok
                       THEN [id |-> saves[i].savedId, children |-> saves[i].selectedChildren,
                             clean |-> Clean(saves[i]) /\ saves[i].fresh]
                       ELSE NoSave
    /\ loading' = FALSE
    /\ UNCHANGED <<store, modalOpen, currentEdit, form, imageFile, selectedChildren,
                   boot, nSessions, nEdits>>

(* --------------------------- specification ---------------------------- *)
Next ==
    \/ fetchPeople
    \/ openAdd
    \/ \E id \in DOMAIN people : openEdit(id)
    \/ \E pid \in DOMAIN people : toggleParent(pid)
    \/ \E cid \in DOMAIN people : toggleChild(cid)
    \/ \E v \in DOMAIN people \cup {Null} : setSpouse(v)
    \/ setImageFile
    \/ cancel
    \/ save
    \/ \E i \in Slots : saveMain(i)
    \/ \E i \in Slots : saveUpload(i)
    \/ \E i \in Slots : savePhotoUrl(i)
    \/ \E i \in Slots : saveDivorce(i)
    \/ \E i \in Slots : saveMarry(i)
    \/ \E i \in Slots : saveChild(i)
    \/ \E i \in Slots : saveFetch(i)

Spec == Init /\ [][Next]_vars

\* The editor of SpecRace does not wait for a running save() before the next click
\* on Save.  The race is followed through one edit session in which no store
\* request fails.
InitRace ==
    /\ store = InitStore
    /\ people = <<>>
    /\ loading = TRUE
    /\ modalOpen = FALSE
    /\ currentEdit = Null
    /\ form = EmptyForm
    /\ imageFile = FALSE
    /\ selectedChildren = {}
    /\ saves = [i \in Slots |-> IdleSave]
    /\ lastSave = NoSave
    /\ chart = EmptyChart
    /\ boot = TRUE
    /\ nSessions = MaxSessions - 1
    /\ nEdits = 0
    /\ nFails = MaxFails

NextRace ==
    \/ Next
    \/ saveAgain

SpecRace == InitRace /\ [][NextRace]_vars

(* ----------------------------- renderTree ----------------------------- *)
\* The diagram description is the text handed to mermaid; the model keeps it as
\* the sequence of its statements.  A statement names one or two elements; an
\* element is named by its kind and the ids its label is built from:
\*   person      NODE_<id>(...)            hub    FAM_<key>[ ] / FAM_COUPLE_<key>[ ]
\*   knot        KNOT_<key>{ }             subgraph   subgraph SG_.. / SG_COUPLE_..
\*   invisible   a ~~~ b     line   a --- b     arrow   a --> b
\* The classDef / linkStyle / click / direction / style lines carry no relation.
Name(k, key) == [k |-> k, key |-> key]

Stmt(type, a, b) == [t |-> type, a |-> a, b |-> b]

\* safeID(id)
Node(id) == Name("NODE", <<id>>)

RECURSIVE SortedIds(_)
\* Object.values(people): the ids in ascending order
SortedIds(S) ==
    IF S = {} THEN <<>>
    ELSE LET m == CHOOSE x \in S : \A y \in S : x <= y IN <<m>> \o SortedIds(S \ {m})

RECURSIVE Sort(_)
\* [...list].sort(): one-digit ids, for which the string order is the numeric one
Sort(seq) ==
    IF seq = <<>> THEN <<>>
    ELSE LET rest == Sort(Tail(seq))
             x    == Head(seq)
         IN SelectSeq(rest, LAMBDA y : y < x) \o <<x>> \o SelectSeq(rest, LAMBDA y : y >= x)

RECURSIVE Flatten(_)
\* chart += ... over a forEach
Flatten(seqs) == IF seqs = <<>> THEN <<>> ELSE Head(seqs) \o Flatten(Tail(seqs))

\* 2. DRAW PEOPLE
PeopleStmts(pop) ==
    LET ids == SortedIds(DOMAIN pop)
    IN [k \in 1..Len(ids) |-> Stmt("person", Node(ids[k]), Node(ids[k]))]

RECURSIVE GroupFamilies(_, _, _)
\* 3.A Group children to find Marriages: families[parentsKey], in insertion order
GroupFamilies(ids, pop, fams) ==
    IF ids = <<>> THEN fams
    ELSE LET child == Head(ids)
             key   == Sort(pop[child].parents)
             known == {k \in 1..Len(fams) : fams[k].key = key}
             next  == IF pop[child].parents = <<>> THEN fams
                      ELSE IF known = {}
                           THEN Append(fams, [key |-> key, parents |-> pop[child].parents,
                                              children |-> <<child>>])
                           ELSE [fams EXCEPT ![CHOOSE k \in known : TRUE].children = Append(@, child)]
         IN GroupFamilies(Tail(ids), pop, next)

\* Object.values(families): the keys that are one id come first, in ascending
\* order, then the joined keys in insertion order
Families(pop) ==
    LET raw     == GroupFamilies(SortedIds(DOMAIN pop), pop, <<>>)
        singles == SortedIds({raw[k].key[1] : k \in {j \in 1..Len(raw) : Len(raw[j].key) = 1}})
        single(id) == raw[CHOOSE k \in 1..Len(raw) : raw[k].key = <<id>>]
    IN [k \in 1..Len(singles) |-> single(singles[k])]
       \o SelectSeq(raw, LAMBDA f : Len(f.key) > 1)

\* fam.id
Hub(fam) == Name("FAM", fam.key)

\* 3.B.2 FORCE PROXIMITY: the subgraph around the two parents of a family
HubSubgraph(pop, fam) ==
    IF Len(fam.parents) = 2 /\ fam.parents[1] \in DOMAIN pop /\ fam.parents[2] \in DOMAIN pop
    THEN <<Stmt("subgraph", Name("SG", fam.parents), Name("SG", fam.parents)),
           Stmt("invisible", Node(fam.parents[1]), Node(fam.parents[2]))>>
    ELSE <<>>

\* mutant: a line from every listed parent, present or not
HubParentLinesUnguarded(pop, fam) ==
    [k \in 1..Len(fam.parents) |-> Stmt("line", Node(fam.parents[k]), Hub(fam))]

\* mutant: the hub is tied to the parents of the parents too
HubParentLinesWithGrandparents(pop, fam) ==
    LET present == SelectSeq(fam.parents, LAMBDA parentId : parentId \in DOMAIN pop)
        grand   == Flatten([k \in 1..Len(present) |->
                              SelectSeq(pop[present[k]].parents, LAMBDA g : g \in DOMAIN pop)])
        all     == present \o grand
    IN [k \in 1..Len(all) |-> Stmt("line", Node(all[k]), Hub(fam))]

\* 3.B.3 Connect Parents to Hub
HubParentLines(pop, fam) ==
    LET present == SelectSeq(fam.parents, LAMBDA parentId : parentId \in DOMAIN pop)
    IN [k \in 1..Len(present) |-> Stmt("line", Node(present[k]), Hub(fam))]

\* 3.B.4 Connect Hub to Children
HubChildArrows(fam) ==
    [k \in 1..Len(fam.children) |-> Stmt("arrow", Hub(fam), Node(fam.children[k]))]

\* 3.B Draw Family Hubs
HubStmts(pop, fam) ==
    <<Stmt("hub", Hub(fam), Hub(fam))>> \o HubSubgraph(pop, fam)
        \o HubParentLines(pop, fam) \o HubChildArrows(fam)

\* mutant: the families leave no mark in processedSpouses
ProcessedByFamiliesNone(fams) == {}

\* processedSpouses after 3.B: the pair keys of the families of two parents
ProcessedByFamilies(fams) == {fams[k].key : k \in {j \in 1..Len(fams) : Len(fams[j].parents) = 2}}

\* if (p.spouse && people[p.spouse])
HasSpouseIn(pop, id) == pop[id].spouse # Null /\ pop[id].spouse \in DOMAIN pop

\* the statements of one childless couple
CoupleStmts(id, spouse) ==
    LET pairKey == Sort(<<id, spouse>>)
        famId   == Name("FAM_COUPLE", pairKey)
    IN <<Stmt("hub", famId, famId),
         Stmt("subgraph", Name("SG_COUPLE", pairKey), Name("SG_COUPLE", pairKey)),
         Stmt("invisible", Node(id), Node(spouse)),
         Stmt("line", Node(id), famId),
         Stmt("line", famId, Node(spouse))>>

RECURSIVE CouplesNoMark(_, _, _)
\* mutant: a drawn couple is not added to processedSpouses
CouplesNoMark(ids, pop, processedSpouses) ==
    IF ids = <<>> THEN <<>>
    ELSE LET id      == Head(ids)
             pairKey == Sort(<<id, pop[id].spouse>>)
         IN IF HasSpouseIn(pop, id) /\ pairKey \notin processedSpouses
            THEN CoupleStmts(id, pop[id].spouse) \o CouplesNoMark(Tail(ids), pop, processedSpouses)
            ELSE CouplesNoMark(Tail(ids), pop, processedSpouses)

RECURSIVE Couples(_, _, _)
\* 3.C Draw Childless Couples
Couples(ids, pop, processedSpouses) ==
    IF ids = <<>> THEN <<>>
    ELSE LET id      == Head(ids)
             pairKey == Sort(<<id, pop[id].spouse>>)
         IN IF HasSpouseIn(pop, id) /\ pairKey \notin processedSpouses
            THEN CoupleStmts(id, pop[id].spouse)
                     \o Couples(Tail(ids), pop, processedSpouses \cup {pairKey})
            ELSE Couples(Tail(ids), pop, processedSpouses)

\* the chart renderTree() of the first component builds from the population
RenderTree(pop) ==
    LET fams == Families(pop)
    IN PeopleStmts(pop)
       \o Flatten([k \in 1..Len(fams) |-> HubStmts(pop, fams[k])])
       \o Couples(SortedIds(DOMAIN pop), pop, ProcessedByFamilies(fams))

(* ------------- renderTree of the second component (knots) ------------- *)
\* knots[key]
Knot(key) == Name("KNOT", key)

RECURSIVE KnotStmts(_, _, _)
\* one knot per spouse pair, tied to both of its persons
KnotStmts(ids, pop, knots) ==
    IF ids = <<>> THEN <<>>
    ELSE LET id   == Head(ids)
             pair == Sort(<<id, pop[id].spouse>>)
         IN IF HasSpouseIn(pop, id) /\ pair \notin knots
            THEN <<Stmt("line", Node(pair[1]), Knot(pair)),
                   Stmt("line", Knot(pair), Node(pair[2])),
                   Stmt("knot", Knot(pair), Knot(pair))>>
                     \o KnotStmts(Tail(ids), pop, knots \cup {pair})
            ELSE KnotStmts(Tail(ids), pop, knots)

\* the keys of knots after the spouse pass
Knots(pop) == {Sort(<<id, pop[id].spouse>>) : id \in {p \in DOMAIN pop : HasSpouseIn(pop, p)}}

\* the arrows into one person: from the knot of its two parents, or from each
\* parent that is present
ParentArrows(pop, id) ==
    IF Len(pop[id].parents) = 2 /\ Sort(pop[id].parents) \in Knots(pop)
    THEN <<Stmt("arrow", Knot(Sort(pop[id].parents)), Node(id))>>
    ELSE LET present == SelectSeq(pop[id].parents, LAMBDA pid : pid \in DOMAIN pop)
         IN [k \in 1..Len(present) |-> Stmt("arrow", Node(present[k]), Node(id))]

\* the chart renderTree() of the second component builds from the population
RenderTreeKnots(pop) ==
    LET ids == SortedIds(DOMAIN pop)
    IN PeopleStmts(pop)
       \o KnotStmts(ids, pop, {})
       \o Flatten([k \in 1..Len(ids) |-> ParentArrows(pop, ids[k])])

(* ------------------- the populations handed to renderTree -------------- *)
MaxParents == 2
MaxLinks == 3
MaxCoupled == 2

\* the ids a record can hold: the persons, and one id no person has
Referable == DOMAIN InitStore \cup {NewId(InitStore)}

ParentLists ==
    {l \in UNION {[1..n -> Referable] : n \in 0..MaxParents} :
        \A j, k \in 1..Len(l) : l[j] = l[k] => j = k}

RECURSIVE SumLen(_, _)
SumLen(f, S) ==
    IF S = {} THEN 0 ELSE LET x == CHOOSE y \in S : TRUE IN Len(f[x]) + SumLen(f, S \ {x})

ParentMaps == {f \in [DOMAIN InitStore -> ParentLists] : SumLen(f, DOMAIN InitStore) <= MaxLinks}

SpouseMaps ==
    {g \in [DOMAIN InitStore -> Referable \cup {Null}] :
        /\ \A id \in DOMAIN InitStore : g[id] # id
        /\ Cardinality({id \in DOMAIN InitStore : g[id] # Null}) <= MaxCoupled}

\* the tables a fetch can load: three persons, whatever their links
Populations ==
    {[id \in DOMAIN InitStore |-> [parents |-> f[id], spouse |-> g[id], img |-> Null]] :
        f \in ParentMaps, g \in SpouseMaps}

\* the component after a successful fetch of any such table, nothing drawn yet
InitRender ==
    /\ store \in Populations
    /\ people = store
    /\ loading = FALSE
    /\ modalOpen = FALSE
    /\ currentEdit = Null
    /\ form = EmptyForm
    /\ imageFile = FALSE
    /\ selectedChildren = {}
    /\ saves = [i \in Slots |-> IdleSave]
    /\ lastSave = NoSave
    /\ chart = EmptyChart
    /\ boot = FALSE
    /\ nSessions = 0
    /\ nEdits = 0
    /\ nFails = 0

\* renderTree() of the first component, lines 112-225
renderTree ==
    /\ chart = EmptyChart
    /\ chart' = RenderTree(people)
    /\ UNCHANGED <<store, people, loading, modalOpen, currentEdit, form, imageFile,
                   selectedChildren, saves, lastSave, boot, nSessions, nEdits, nFails>>

\* renderTree() of the second component, lines 667-712
renderTreeKnots ==
    /\ chart = EmptyChart
    /\ chart' = RenderTreeKnots(people)
    /\ UNCHANGED <<store, people, loading, modalOpen, currentEdit, form, imageFile,
                   selectedChildren, saves, lastSave, boot, nSessions, nEdits, nFails>>

NextRender ==
    \/ renderTree
    \/ renderTreeKnots

SpecRender == InitRender /\ [][NextRender]_vars

(* ------------------------ vocabulary of the claims -------------------- *)
\* save() ran to its end: the loop finished, the modal was closed, fetchPeople returned
Completed(s) == s.pc = "done" /\ ~s.alerted

\* save() ran to its end and no store request of it, the re-fetch included, failed
Succeeded(s) == Completed(s) /\ Clean(s) /\ s.fetched

HasEntry(s, kind, id) == \E k \in 1..Len(s.log) : s.log[k].kind = kind /\ s.log[k].id = id

HasKind(s, kind) == \E k \in 1..Len(s.log) : s.log[k].kind = kind

Symmetric(st) == \A a \in DOMAIN st : st[a].spouse # Null => (st[a].spouse \in DOMAIN st /\ st[st[a].spouse].spouse = a)

\* the step of save() a write belongs to
Rank(kind) == CASE kind = "main" -> 1
                [] kind = "upload" -> 2
                [] kind = "photoUrl" -> 2
                [] kind = "divorce" -> 3
                [] kind = "marry" -> 3
                [] kind = "child" -> 4

(* --------------------------------- C1 --------------------------------- *)
\* C1 (as claimed): whenever no request is in flight and no store request has failed
\* so far, the stored spouse relation is symmetric.
C1_SpouseSymmetric == (nFails = 0 /\ ~boot /\ \A i \in Slots : ~InFlight(i)) => Symmetric(store)

(* --------------------------------- C2 --------------------------------- *)
\* C2 (as claimed): after a save of X without a store error, every other person c of
\* the loaded population lists X as a parent in the store iff c was selected.
C2_ChildrenMatchSelection ==
    \A i \in Slots : Succeeded(saves[i]) =>
        \A c \in AllPeople(saves[i]) :
            Includes(store[c].parents, saves[i].savedId) <=> IsSelected(saves[i], c)

\* C2 (amended): the same, for a save that started from a loaded population equal
\* to the store's content.
C2_ChildrenMatchSelectionFresh ==
    \A i \in Slots : (Succeeded(saves[i]) /\ saves[i].fresh) =>
        \A c \in AllPeople(saves[i]) :
            Includes(store[c].parents, saves[i].savedId) <=> IsSelected(saves[i], c)

\* a fresh save succeeded that added X to one child and removed it from another
C2_Witness ==
    \E i \in Slots :
        /\ Succeeded(saves[i]) /\ saves[i].fresh
        /\ \E c, d \in AllPeople(saves[i]) :
            /\ HasEntry(saves[i], "child", c) /\ IsSelected(saves[i], c)
            /\ HasEntry(saves[i], "child", d) /\ ~IsSelected(saves[i], d)

(* --------------------------------- C3 --------------------------------- *)
\* C3 (as claimed): a failed write is the last thing its save() does: no later write
\* is issued, the modal is not closed and the population is not re-fetched.
C3_FailureAborts ==
    \A i \in Slots : \A k \in 1..Len(saves[i].log) :
        ~saves[i].log[k].ok => (k = Len(saves[i].log) /\ saves[i].pc = "done" /\ ~saves[i].closedModal)

(* --------------------------------- C4 --------------------------------- *)
\* C4: in the writes of one save(), in the order the store served them, the main
\* write is the first and the only one of its kind, the photo writes follow it
\* directly and occur only (and, once the save is past them, always) when an image
\* was supplied, and no write of an earlier step follows one of a later step.
C4_WriteOrder ==
    \A i \in Slots :
        LET s == saves[i] IN
        /\ Len(s.log) > 0 => s.log[1].kind = "main"
        /\ \A k \in 2..Len(s.log) : s.log[k].kind # "main"
        /\ \A j, k \in 1..Len(s.log) : j < k => Rank(s.log[j].kind) <= Rank(s.log[k].kind)
        /\ (HasKind(s, "upload") \/ HasKind(s, "photoUrl")) => s.imageFile
        /\ (s.imageFile /\ Len(s.log) >= 2) => s.log[2].kind = "upload"
        /\ (s.imageFile /\ Len(s.log) >= 3) => s.log[3].kind = "photoUrl"
        /\ (s.imageFile /\ Completed(s)) => Len(s.log) >= 3

\* one save() issued a write of each of the four steps
C4_Witness ==
    \E i \in Slots :
        /\ Completed(saves[i])
        /\ HasKind(saves[i], "main") /\ HasKind(saves[i], "photoUrl")
        /\ (HasKind(saves[i], "marry") \/ HasKind(saves[i], "divorce"))
        /\ HasKind(saves[i], "child")

(* --------------------------------- C5 --------------------------------- *)
\* C5: after a save of X without a store error in which X had no spouse as last
\* loaded and the form names Y, the re-fetched population has X.spouse = Y and
\* Y.spouse = X.
C5_SpouseRoundTrip ==
    \A i \in Slots :
        (Succeeded(saves[i]) /\ OldSpouseId(saves[i]) = Null /\ NewSpouseId(saves[i]) # Null) =>
            /\ saves[i].savedId \in DOMAIN people
            /\ NewSpouseId(saves[i]) \in DOMAIN people
            /\ people[saves[i].savedId].spouse = NewSpouseId(saves[i])
            /\ people[NewSpouseId(saves[i])].spouse = saves[i].savedId

\* such a save of an existing person has succeeded
C5_Witness ==
    \E i \in Slots :
        /\ Succeeded(saves[i])
        /\ saves[i].currentEdit # Null
        /\ OldSpouseId(saves[i]) = Null
        /\ NewSpouseId(saves[i]) # Null

(* --------------------------------- C6 --------------------------------- *)
\* C6: a save of X whose form changes the spouse from a person Y (as last loaded)
\* writes spouse = null to Y and, when the new value is a person Z, spouse = X to Z,
\* and when every request succeeded the store holds these values; a save whose
\* form leaves the spouse as loaded issues no spouse write.
C6_DivorceAndMarry ==
    \A i \in Slots :
        LET s == saves[i]
            old == OldSpouseId(s)
            new == NewSpouseId(s)
        IN
        /\ (Completed(s) /\ old # Null /\ new # old) =>
              /\ HasEntry(s, "divorce", old)
              /\ new # Null => HasEntry(s, "marry", new)
              /\ Clean(s) => /\ store[old].spouse = Null
                             /\ new # Null => store[new].spouse = s.savedId
        /\ (s.pc # "idle" /\ old = new) => (~HasKind(s, "divorce") /\ ~HasKind(s, "marry"))

\* a save that moved X from its spouse Y to another person Z has completed
C6_Witness ==
    \E i \in Slots :
        /\ Completed(saves[i]) /\ Clean(saves[i])
        /\ OldSpouseId(saves[i]) # Null
        /\ NewSpouseId(saves[i]) \notin {Null, OldSpouseId(saves[i])}

(* --------------------------------- C7 --------------------------------- *)
\* C7 (as claimed): a save() that repeats the latest completed and re-fetched save
\* (same person, same selected children) issues no write.
C7_SecondSaveWritesNothing ==
    \A i \in Slots : saves[i].repeat # "no" => saves[i].log = <<>>

\* C7 (amended): when that first save started from a loaded population equal to the
\* store's content and every request of it succeeded, the second issues no write to
\* the parents list of any other person.
C7_SecondSaveNoChildWrite ==
    \A i \in Slots : saves[i].repeat = "clean" => ~HasKind(saves[i], "child")

\* the second of two such saves has completed, the first having changed the children
C7_Witness ==
    \E i \in Slots :
        /\ saves[i].repeat = "clean"
        /\ Completed(saves[i])
        /\ saves[i].selectedChildren # ChildrenOf(InitStore, saves[i].savedId)

(* --------------------------------- C8 --------------------------------- *)
\* C8: every write of the parent/child loop goes to another person of the loaded
\* population whose membership in the selected children differs from whether its
\* loaded parents list holds X; a person for whom the two agree gets no such write.
C8_ChildWritesOnlyOnDifference ==
    \A i \in Slots : \A k \in 1..Len(saves[i].log) :
        saves[i].log[k].kind = "child" =>
            /\ saves[i].log[k].id \in AllPeople(saves[i])
            /\ IsSelected(saves[i], saves[i].log[k].id) # HasParent(saves[i], saves[i].log[k].id)

\* a completed save wrote to one child and skipped a selected child that lists X
C8_Witness ==
    \E i \in Slots :
        /\ Completed(saves[i])
        /\ HasKind(saves[i], "child")
        /\ \E c \in AllPeople(saves[i]) :
            /\ IsSelected(saves[i], c) /\ HasParent(saves[i], c)
            /\ ~HasEntry(saves[i], "child", c)

(* --------------------------------- C9 --------------------------------- *)
\* the form of s differs from the loaded record only by one parent taken away
OnlyOneParentRemoved(s) ==
    /\ s.currentEdit \in DOMAIN s.people
    /\ ~s.imageFile
    /\ NewSpouseId(s) = OldSpouseId(s)
    /\ s.selectedChildren = ChildrenOf(s.people, s.currentEdit)
    /\ \E pid \in DOMAIN s.people :
        /\ Includes(s.people[s.currentEdit].parents, pid)
        /\ s.form.parents = Filter(s.people[s.currentEdit].parents, pid)

\* C9: such a save issues exactly one write, the update of the person's own record,
\* which carries the reduced parents list; no other record changes.
C9_SingleWrite ==
    \A i \in Slots :
        LET s == saves[i] IN
        (s.pc = "done" /\ OnlyOneParentRemoved(s)) =>
            /\ Len(s.log) = 1
            /\ s.log[1].kind = "main" /\ s.log[1].id = s.currentEdit
            /\ s.log[1].ok => store[s.currentEdit].parents = s.form.parents
            /\ s.fresh => \A c \in DOMAIN s.people \ {s.currentEdit} : store[c] = s.people[c]
            /\ s.fresh => store[s.currentEdit].img = s.people[s.currentEdit].img

\* person 3 was saved with parent 1 removed
C9_Witness ==
    \E i \in Slots :
        /\ saves[i].pc = "done" /\ OnlyOneParentRemoved(saves[i]) /\ Clean(saves[i])
        /\ saves[i].people[saves[i].currentEdit].parents = <<1, 2>>
        /\ store[saves[i].currentEdit].parents = <<2>>

(* --------------------------------- C10 -------------------------------- *)
\* C10 (as claimed): a save() in which a write failed ends with the error shown
\* and without having closed the modal.
C10_FailureKeepsModal ==
    \A i \in Slots :
        (saves[i].pc = "done" /\ ~Clean(saves[i])) => (saves[i].alerted /\ ~saves[i].closedModal)

(* --------------------------------- C11 -------------------------------- *)
\* a fetchPeople() is awaiting its select: the one of the mount effect or the one
\* a save() ends with
FetchPending == boot \/ \E i \in Slots : saves[i].pc = "fetch"

\* C11: a fetch that fails leaves the in-memory population exactly as it was,
\* turns the loading indicator off, and is not followed by another fetch of its
\* own: afterwards no fetch is pending.
C11_FetchFailureKeepsPeople ==
    [][(FetchPending /\ nFails' # nFails) =>
          (people' = people /\ loading' = FALSE /\ ~FetchPending')]_vars

\* the re-fetch of a save() failed: the loaded population is the one from before
\* the save, which the store no longer equals
C11_Witness ==
    \E i \in Slots :
        /\ saves[i].pc = "done" /\ saves[i].closedModal /\ ~saves[i].fetched
        /\ people = saves[i].people /\ people # <<>> /\ people # store
        /\ ~loading /\ ~FetchPending

(* --------------------------------- C13 -------------------------------- *)
\* save s, started from a population equal to the store, gives X the new spouse y
\* whose stored spouse z is another person that names y
ThirdParty(s, y, z) ==
    /\ s.fresh
    /\ y = NewSpouseId(s) /\ y # OldSpouseId(s) /\ y \in DOMAIN s.people
    /\ z = s.people[y].spouse /\ z \in DOMAIN s.people /\ z # s.savedId
    /\ s.people[z].spouse = y

\* C13 (as claimed): a save of X with new spouse Y, whose stored spouse is Z # X,
\* issues no write to Z's record; afterwards Z still names Y and Y names X.
C13_ThirdPartyUntouched ==
    \A i \in Slots : \A y, z \in DOMAIN saves[i].people :
        (Completed(saves[i]) /\ Clean(saves[i]) /\ ThirdParty(saves[i], y, z)) =>
            /\ \A k \in 1..Len(saves[i].log) : saves[i].log[k].id # z
            /\ store[z].spouse = y
            /\ store[y].spouse = saves[i].savedId

\* C13 (amended): when Z is not X's own previous spouse, the save issues no spouse
\* write to Z's record (the only write Z can get is the parents write of the
\* child loop); afterwards Z still names Y and Y names X.
C13_ThirdPartySpouseUntouched ==
    \A i \in Slots : \A y, z \in DOMAIN saves[i].people :
        (Completed(saves[i]) /\ Clean(saves[i]) /\ ThirdParty(saves[i], y, z)
            /\ z # OldSpouseId(saves[i])) =>
            /\ \A k \in 1..Len(saves[i].log) :
                  saves[i].log[k].id = z => saves[i].log[k].kind = "child"
            /\ store[z].spouse = y
            /\ store[y].spouse = saves[i].savedId

\* X left its spouse for person 1, whose stored spouse is person 2: both the
\* divorce and the marry write were issued, none of them to person 2
C13_Witness ==
    \E i \in Slots :
        /\ Completed(saves[i]) /\ Clean(saves[i]) /\ ThirdParty(saves[i], 1, 2)
        /\ OldSpouseId(saves[i]) \notin {Null, 2}
        /\ HasKind(saves[i], "divorce") /\ HasEntry(saves[i], "marry", 1)
        /\ store[2].spouse = 1 /\ store[1].spouse = saves[i].savedId

(* --------------------------------- C14 -------------------------------- *)
\* s is a save() of the add-flow that has issued its insert
Adding(s) == s.currentEdit = Null /\ s.log # <<>>

\* C14: in the add-flow the first request is the insert; a failed insert ends the
\* save with no further write; every later write is issued with the id the store
\* gave the inserted row, which the marry write and the child writes carry.
C14_AddFlowUsesInsertedId ==
    \A i \in Slots :
        LET s == saves[i] IN
        Adding(s) =>
            /\ s.log[1].kind = "main"
            /\ ~s.log[1].ok => (Len(s.log) = 1 /\ s.pc = "done" /\ s.savedId = Null)
            /\ s.log[1].ok =>
                /\ s.savedId = s.log[1].id
                /\ s.savedId \in DOMAIN store \ DOMAIN s.people
                /\ store[s.savedId].parents = s.form.parents
                /\ store[s.savedId].spouse = s.form.spouse
            /\ \A k \in 2..Len(s.log) :
                /\ s.log[1].ok
                /\ (s.log[k].kind = "marry" /\ s.log[k].ok) =>
                      store[s.log[k].id].spouse = s.savedId
                /\ (s.log[k].kind = "child" /\ s.log[k].ok) =>
                      Includes(store[s.log[k].id].parents, s.savedId)

\* a person was added with a spouse and a child: the marry write and the child
\* write were issued after the insert
C14_Witness ==
    \E i \in Slots :
        /\ Adding(saves[i]) /\ Completed(saves[i]) /\ Clean(saves[i])
        /\ HasKind(saves[i], "marry") /\ HasKind(saves[i], "child")
        /\ saves[i].savedId \notin DOMAIN saves[i].people

(* --------------------------------- C15 -------------------------------- *)
\* the persons reached from the set S by following parents lists up to n times
RECURSIVE AncestorsWithin(_, _, _)
AncestorsWithin(st, S, n) ==
    IF n = 0 THEN {}
    ELSE LET up == {q \in DOMAIN st : \E c \in S \cap DOMAIN st : Includes(st[c].parents, q)}
         IN up \cup AncestorsWithin(st, up, n - 1)

Ancestors(st, id) == AncestorsWithin(st, {id}, Cardinality(DOMAIN st))

\* no person is its own ancestor
Acyclic(st) == \A id \in DOMAIN st : id \notin Ancestors(st, id)

\* C15 (as claimed): the stored parent relation, acyclic at the start, is acyclic
\* after every sequence of edit sessions and saves.
C15_ParentsAcyclic == Acyclic(store)

(* --------------------------------- C16 -------------------------------- *)
\* every parents list holds ids of existing persons only, and not the person's own
ParentsWellFormed(st) ==
    \A id \in DOMAIN st : \A k \in 1..Len(st[id].parents) :
        st[id].parents[k] \in DOMAIN st /\ st[id].parents[k] # id

\* C16: the stored parents lists, well formed at the start, are well formed after
\* every sequence of edit sessions and saves.
C16_ParentsWellFormed == ParentsWellFormed(store)

\* a save wrote a parents list the user changed to the edited person's record and
\* added the person to the parents list of a child
C16_Witness ==
    \E i \in Slots :
        LET s == saves[i] IN
        /\ Completed(s) /\ Clean(s) /\ s.currentEdit \in DOMAIN s.people
        /\ s.form.parents # <<>> /\ s.form.parents # s.people[s.currentEdit].parents
        /\ store[s.currentEdit].parents = s.form.parents
        /\ \E c \in AllPeople(s) :
            /\ HasEntry(s, "child", c) /\ IsSelected(s, c)
            /\ Includes(store[c].parents, s.savedId)

(* --------------------------------- C12 -------------------------------- *)
\* two save() calls ran to their end on the same loaded population, every request
\* of both succeeding
RacedSaves ==
    /\ \A i \in Slots : Completed(saves[i]) /\ Clean(saves[i])
    /\ \A i, j \in Slots : saves[i].people = saves[j].people

\* a parents list of the store lacks the id a child write of save i added to it
LostParent(i) ==
    \E c \in AllPeople(saves[i]) :
        /\ HasEntry(saves[i], "child", c) /\ IsSelected(saves[i], c)
        /\ ~Includes(store[c].parents, saves[i].savedId)

\* X's record names the spouse y save i married it to, and y's record names another
HalfMarried(i) ==
    \E y \in DOMAIN store :
        /\ HasEntry(saves[i], "marry", y)
        /\ store[saves[i].savedId].spouse = y
        /\ store[y].spouse # saves[i].savedId

\* C12: while a save() is between two of its awaits and the modal is open, a
\* second click on Save starts another save(): nothing disables it.  (That the
\* interleaved writes reach inconsistent links is the reachability of C12_Witness.)
C12_SecondSaveNotPrevented ==
    (~boot /\ Overlappable /\ modalOpen) => ENABLED saveAgain

\* both saves finished without an error; a child's parents list lost the parent
\* id one of them added, and the spouse one of them married names the other's person
C12_Witness ==
    /\ RacedSaves
    /\ \E i \in Slots : LostParent(i)
    /\ \E i \in Slots : HalfMarried(i)

(* --------------------------------- C17 -------------------------------- *)
\* C17 (as claimed): after a save() that ran to its end with no failed request,
\* the re-fetch included, the loaded population is the store's content and the
\* diagram is the one renderTree() builds from that population.
C17_DiagramRebuilt ==
    \A i \in Slots :
        Succeeded(saves[i]) => (people = store /\ chart = RenderTree(people))

(* ------------------- vocabulary of the diagram claims ----------------- *)
\* the ids a key is built from
Members(key) == {key[k] : k \in 1..Len(key)}

\* the statements of the chart that group exactly the persons a and b: the
\* subgraphs of the first renderTree, the knots of the second
CoupleUnits(a, b) ==
    {k \in 1..Len(chart) : chart[k].t \in {"subgraph", "knot"} /\ Members(chart[k].a.key) = {a, b}}

\* the connector edges that end at person c
ArrowsInto(c) == {k \in 1..Len(chart) : chart[k].t = "arrow" /\ chart[k].b = Node(c)}

\* element e is the anchor of a unit of exactly a and b, tied to both by a line
AnchorOf(e, a, b) ==
    /\ e.k \in {"FAM", "KNOT"}
    /\ Members(e.key) = {a, b}
    /\ \A x \in {a, b} : \E k \in 1..Len(chart) :
          chart[k].t = "line" /\ {chart[k].a, chart[k].b} = {Node(x), e}

\* a and b name each other as spouse
MutualSpouses(a, b) == a # b /\ people[a].spouse = b /\ people[b].spouse = a

\* the parents list of c is a and b, in either order
ChildOfBoth(c, a, b) == a # b /\ Len(people[c].parents) = 2 /\ Members(people[c].parents) = {a, b}

(* --------------------------------- C18 -------------------------------- *)
\* C18: whichever renderTree built the chart, two persons A and B that are
\* mutually spouses and have a child listing both are in exactly one grouping of
\* exactly A and B, and the child has exactly one connector edge, which starts
\* at the anchor of that grouping.
C18_CoupleUnitOneEdge ==
    chart # EmptyChart =>
        \A a, b, c \in DOMAIN people :
            (MutualSpouses(a, b) /\ ChildOfBoth(c, a, b)) =>
                /\ Cardinality(CoupleUnits(a, b)) = 1
                /\ Cardinality(ArrowsInto(c)) = 1
                /\ \A k \in ArrowsInto(c) : AnchorOf(chart[k].a, a, b)

\* the chart of the first renderTree for 1 and 2 married with child 3
C18_Witness ==
    /\ chart = RenderTree(people)
    /\ MutualSpouses(1, 2) /\ ChildOfBoth(3, 1, 2)
    /\ CoupleUnits(1, 2) # {} /\ ArrowsInto(3) # {}

(* --------------------------------- C19 -------------------------------- *)
\* neither of a and b names the other as spouse
NotSpouses(a, b) == people[a].spouse # b /\ people[b].spouse # a

\* C19 (as claimed): whichever renderTree built the chart, a person whose two
\* parents are in the population and are not each other's spouse has exactly two
\* connector edges, one starting at each parent's node.
C19_TwoSeparateEdges ==
    chart # EmptyChart =>
        \A a, b, c \in DOMAIN people :
            (ChildOfBoth(c, a, b) /\ c \notin {a, b} /\ NotSpouses(a, b)) =>
                /\ Cardinality(ArrowsInto(c)) = 2
                /\ {chart[k].a : k \in ArrowsInto(c)} = {Node(a), Node(b)}

(* --------------------------------- C20 -------------------------------- *)
\* the ids the parents list of d holds that no person of the population has
MissingParents(d) == Members(people[d].parents) \ DOMAIN people

\* the statements that join two elements
Edges == {k \in 1..Len(chart) : chart[k].t \in {"line", "arrow", "invisible"}}

\* C20: whichever renderTree built the chart from a population in which person D
\* lists a parent id no person has, the chart was built, holds the node of D,
\* and none of its edges has the node of the missing id as an endpoint.
C20_DanglingParentSkipped ==
    chart # EmptyChart =>
        \A d \in DOMAIN people : \A m \in MissingParents(d) :
            /\ \E k \in 1..Len(chart) : chart[k] = Stmt("person", Node(d), Node(d))
            /\ \A k \in Edges : chart[k].a # Node(m) /\ chart[k].b # Node(m)

\* the first renderTree built the chart for a person 3 that lists a missing id
\* and person 1: person 3 has its node and a connector edge
C20_Witness ==
    /\ chart = RenderTree(people) /\ chart # EmptyChart
    /\ MissingParents(3) # {} /\ 1 \in Members(people[3].parents)
    /\ ArrowsInto(3) # {}

(* --------------------------------- C22 -------------------------------- *)
\* a and b list each other as a parent
ParentCycle(a, b) == a # b /\ Includes(people[a].parents, b) /\ Includes(people[b].parents, a)

\* C22 (as claimed): the read path of a population in which two persons list
\* each other as a parent ends in a structural error, shown as a diagram that
\* is not drawn: no renderTree puts a chart in the tree container.
C22_CycleIsStructuralError ==
    (\E a, b \in DOMAIN people : ParentCycle(a, b)) => chart = EmptyChart

(* --------------------------------- C23 -------------------------------- *)
\* C23 (as claimed): a divorce write of a save of X, started from a population
\* equal to the store, goes to a person whose stored spouse is X.
C23_DivorceOnlyIfPointsBack ==
    \A i \in Slots : \A y \in DOMAIN saves[i].people :
        (saves[i].fresh /\ HasEntry(saves[i], "divorce", y)) =>
            saves[i].people[y].spouse = saves[i].currentEdit

\* save i is about to issue the write that clears the spouse of y: its divorce
\* write, to the old spouse of X as last loaded and in a save that changes X's
\* spouse, or the main write of X itself
ClearsSpouseOf(i, y) ==
    \/ /\ saves[i].pc = "divorce"
       /\ y = OldSpouseId(saves[i])
       /\ OldSpouseId(saves[i]) # NewSpouseId(saves[i])
    \/ /\ saves[i].pc = "main"
       /\ y = saves[i].currentEdit
       /\ NewSpouseId(saves[i]) = Null

\* C23 (amended): a spouse field of the store is set to null only by the main
\* write of X or by the divorce write, which goes to X's old spouse as last
\* loaded whenever the spouse of X changed, whatever that person's stored spouse.
C23_DivorceOnlyOldSpouse ==
    [][\A y \in DOMAIN store :
          (store[y].spouse # Null /\ store'[y].spouse = Null) =>
              \E i \in Slots : ClearsSpouseOf(i, y)]_vars

\* the divorce write of a save of X cleared the spouse of a person whose stored
\* spouse was a third person
C23_Witness ==
    \E i \in Slots : \E y \in DOMAIN saves[i].people :
        /\ Completed(saves[i]) /\ Clean(saves[i]) /\ saves[i].fresh
        /\ HasEntry(saves[i], "divorce", y)
        /\ saves[i].people[y].spouse \notin {Null, saves[i].currentEdit}
        /\ store[y].spouse = Null

(* --------------------------------- C24 -------------------------------- *)
\* the step from store to store' changes, on record y, the column col at most
OnlyColumn(y, col) == \A f \in DOMAIN store[y] : f # col => store'[y][f] = store[y][f]

\* save i is about to issue a write that the claim allows to change record y
MayWrite(i, y) ==
    LET s == saves[i] IN
    \/ s.pc \in {"main", "upload", "photoUrl"} /\ y = s.savedId
    \/ s.pc = "divorce" /\ y = OldSpouseId(s) /\ OnlyColumn(y, "spouse")
    \/ s.pc = "marry" /\ y = NewSpouseId(s) /\ OnlyColumn(y, "spouse")
    \/ /\ s.pc = "child"
       /\ y \in DOMAIN s.people /\ y # s.savedId
       /\ IsSelected(s, y) # HasParent(s, y)
       /\ OnlyColumn(y, "parents")

\* C24: a record of the store changes only in a step of a save of X, and then it
\* is X's own record, or X's old spouse or new spouse with only the spouse
\* column changed, or a person whose child status differs with only the parents
\* column changed; every other record is left as it was.
C24_FrameOfSave ==
    [][\A y \in DOMAIN store : store'[y] # store[y] => \E i \in Slots : MayWrite(i, y)]_vars

\* a person was added with a spouse and a child: the marry write and the child
\* write were issued, and a person who is neither is as it was loaded
C24_Witness ==
    \E i \in Slots :
        LET s == saves[i] IN
        /\ Completed(s) /\ Clean(s) /\ s.fresh
        /\ HasKind(s, "marry") /\ HasKind(s, "child")
        /\ \E z \in DOMAIN s.people \ {s.savedId, OldSpouseId(s), NewSpouseId(s)} :
            /\ IsSelected(s, z) = HasParent(s, z)
            /\ ~HasEntry(s, "child", z)
            /\ store[z] = s.people[z]

(* --------------------------------- C25 -------------------------------- *)
\* the list holds no id twice
NoDuplicates(l) == \A j, k \in 1..Len(l) : l[j] = l[k] => j = k

\* C25: the stored parents lists, free of duplicates at the start, are free of
\* duplicates after every sequence of edit sessions and saves.
C25_NoDuplicateParents == \A id \in DOMAIN store : NoDuplicates(store[id].parents)

\* a save stored a list of two parents the user put together by toggling, and
\* appended X to the parents list of a child that already had a parent
C25_Witness ==
    \E i \in Slots :
        LET s == saves[i] IN
        /\ Completed(s) /\ Clean(s)
        /\ Len(s.form.parents) = 2 /\ store[s.savedId].parents = s.form.parents
        /\ (s.currentEdit \in DOMAIN s.people => s.people[s.currentEdit].parents # s.form.parents)
        /\ \E c \in AllPeople(s) :
            /\ HasEntry(s, "child", c) /\ IsSelected(s, c)
            /\ Len(store[c].parents) > 1

(* --------------------------------- C26 -------------------------------- *)
\* the session state openAdd / openEdit(id) leave: nothing of an earlier session
FreshSession(id) ==
    /\ currentEdit' = id
    /\ form' = IF id = Null THEN EmptyForm ELSE people[id]
    /\ selectedChildren' = IF id = Null THEN {} ELSE ChildrenOf(people, id)
    /\ imageFile' = FALSE

\* activation i of save() starts in this step
Starts(i) == ~InFlight(i) /\ saves'[i].pc = "main"

\* C26: every step that opens a session sets the edited id, the form, the
\* selected children and the pending image from the opened person alone, and
\* every save() that starts works on the session state of that moment.
C26_SessionStateReset ==
    [][/\ nSessions' # nSessions => \E id \in DOMAIN people \cup {Null} : FreshSession(id)
       /\ \A i \in Slots : Starts(i) =>
            /\ saves'[i].currentEdit = currentEdit
            /\ saves'[i].form = form
            /\ saves'[i].selectedChildren = selectedChildren
            /\ saves'[i].imageFile = imageFile]_vars

\* in the second session a person was saved as loaded, after an edit made before:
\* the save issued the main write only and the store is as it was loaded
C26_Witness ==
    \E i \in Slots :
        LET s == saves[i] IN
        /\ nSessions > 1 /\ nEdits > 0
        /\ Completed(s) /\ Clean(s) /\ s.fresh
        /\ s.currentEdit \in DOMAIN s.people
        /\ s.form = s.people[s.currentEdit] /\ ~s.imageFile
        /\ s.selectedChildren = ChildrenOf(s.people, s.currentEdit)
        /\ Len(s.log) = 1 /\ store = s.people

(* --------------------------------- C27 -------------------------------- *)
\* save i is about to write the public URL of the image it has uploaded
PhotoStep(i, y) ==
    /\ saves[i].pc = "photoUrl" /\ y = saves[i].savedId /\ saves[i].imageFile
    /\ \E k \in 1..Len(saves[i].log) : saves[i].log[k].kind = "upload" /\ saves[i].log[k].ok

\* C27: the stored image URL of a person changes only in the photo step of a
\* save of that person for which an image file was supplied and uploaded; so a
\* save of an existing person with no new image file leaves it as it was.
C27_ImageOnlyByPhotoStep ==
    [][\A y \in DOMAIN store :
          store'[y].img # store[y].img => \E i \in Slots : PhotoStep(i, y)]_vars

\* a person that has a stored image was saved with no new image file: no upload
\* and no URL write were issued and the stored image is the loaded one
C27_Witness ==
    \E i \in Slots :
        LET s == saves[i] IN
        /\ Completed(s) /\ Clean(s) /\ s.fresh
        /\ s.currentEdit \in DOMAIN s.people /\ ~s.imageFile
        /\ s.people[s.currentEdit].img # Null
        /\ ~HasKind(s, "upload") /\ ~HasKind(s, "photoUrl")
        /\ store[s.currentEdit].img = s.people[s.currentEdit].img

(* --------------------------------- C28 -------------------------------- *)
\* C28: in the chart of either renderTree every person p with a spouse in the
\* population is, with that spouse, in exactly one grouping of exactly the two,
\* whether some child lists the two as its parents or none does.
C28_OneGroupingPerCouple ==
    chart # EmptyChart =>
        \A p \in DOMAIN people :
            HasSpouseIn(people, p) => Cardinality(CoupleUnits(p, people[p].spouse)) = 1

\* the first renderTree drew the mutual spouses 1 and 2, whom no child lists, as
\* one childless couple: the second visit of the pair added nothing
C28_Witness ==
    /\ chart = RenderTree(people)
    /\ MutualSpouses(1, 2)
    /\ \A c \in DOMAIN people : people[c].parents = <<>>
    /\ \E k \in CoupleUnits(1, 2) : chart[k].a.k = "SG_COUPLE"
    /\ Cardinality(CoupleUnits(1, 2)) = 1

(* --------------------------------- C29 -------------------------------- *)
\* activation i of save() returns in this step
Returns(i) == InFlight(i) /\ saves'[i].pc = "done"

\* C29: the step in which a save() returns, by its last await or by a thrown
\* error, and the step in which the fetchPeople() of the mount effect returns,
\* with or without an error, leave the loading indicator off.
C29_LoadingOffAtEnd ==
    [][((\E i \in Slots : Returns(i)) \/ (boot /\ ~boot')) => loading' = FALSE]_vars

\* a save() was aborted by the error of its insert: the alert was shown, the
\* modal is open and the loading indicator is off
C29_Witness ==
    \E i \in Slots :
        /\ saves[i].pc = "done" /\ saves[i].alerted /\ ~Clean(saves[i])
        /\ modalOpen /\ ~loading

(* --------------------------------- C30 -------------------------------- *)
RECURSIVE SumOf(_, _)
\* the sum of f over the set S
SumOf(f, S) == IF S = {} THEN 0 ELSE LET x == CHOOSE y \in S : TRUE IN f[x] + SumOf(f, S \ {x})

\* the parents lists of the population, sorted, and its spouse pairs
ParentKeys(pop) == {Sort(pop[c].parents) : c \in {d \in DOMAIN pop : pop[d].parents # <<>>}}

SpousePairs(pop) == {Sort(<<p, pop[p].spouse>>) : p \in {q \in DOMAIN pop : HasSpouseIn(pop, q)}}

\* the statements single passes can emit: one per person, one per child, for
\* each parents list a hub, at most a subgraph of two statements and a line per
\* listed parent, and five per spouse pair
PassBound(pop) ==
    Cardinality(DOMAIN pop)
    + Cardinality({c \in DOMAIN pop : pop[c].parents # <<>>})
    + SumOf([key \in ParentKeys(pop) |-> 1 + (IF Len(key) = 2 THEN 2 ELSE 0) + Len(key)],
            ParentKeys(pop))
    + 5 * Cardinality(SpousePairs(pop))

\* C30: for every population, one with a parent cycle or a self-parent
\* included, the chart a renderTree built has no more statements than single
\* passes over the persons, the parents lists and the spouse pairs emit: no
\* parents edge is followed further.
C30_RenderTreeTerminates ==
    chart # EmptyChart => Len(chart) <= PassBound(people)

\* the first renderTree built the chart of a population with a self-parent and
\* a cycle of two
C30_Witness ==
    /\ chart = RenderTree(people) /\ chart # EmptyChart
    /\ \E a \in DOMAIN people : Includes(people[a].parents, a)
    /\ \E a, b \in DOMAIN people : ParentCycle(a, b)

====
